---------------------------- MODULE Spec2Model ----------------------------
(***************************************************************************)
(* Model of src/src/ladder/camera/__init__.py: the CameraMode enum with    *)
(* its per-member payload, the CameraSettings bundle, the Camera with its  *)
(* two 4x4 matrix slots, and projection_from_frustum.                      *)
(*                                                                         *)
(* Numbers.  A float is modelled as an extended rational <<n, d>> with     *)
(* d >= 0 in lowest terms: d > 0 is the finite value n/d, <<1,0>> is +inf, *)
(* <<-1,0>> is -inf and <<0,0>> is NaN, so that a division by zero gives   *)
(* what IEEE arithmetic gives and not an exception.  Rounding is not       *)
(* modelled, and zero carries no sign.                                     *)
(*                                                                         *)
(* Angles.  An angle in radians is modelled by its coefficient of pi, so   *)
(* 80.0 * (math.pi / 180.0) is <<4,9>> and pi/2 is <<1,2>>.                *)
(*                                                                         *)
(* The body of the kernel compute_projection_matrix is modelled as run at  *)
(* each call, reading the attributes as they are at the call.              *)
(***************************************************************************)
EXTENDS Integers, Sequences, FiniteSets, TLC

VARIABLES fov_rad, box_height, focal_length, settings, cameras, last, raised, frustum

vars == <<fov_rad, box_height, focal_length, settings, cameras, last, raised, frustum>>

(* ------------------------------ bounds --------------------------------- *)

MaxSettings == 2

MaxCameras == 1

(* --------------------------- float arithmetic -------------------------- *)

Abs(x) == IF x < 0 THEN -x ELSE x

Sign(x) == IF x > 0 THEN 1 ELSE IF x < 0 THEN -1 ELSE 0

RECURSIVE GCD(_, _)
GCD(a, b) == IF b = 0 THEN a ELSE GCD(b, a % b)

Norm(n, d) ==
    IF d = 0 THEN <<Sign(n), 0>>
    ELSE LET g == GCD(Abs(n), d) IN <<n \div g, d \div g>>

NaN == <<0, 0>>

Zero == <<0, 1>>

One == <<1, 1>>

Two == <<2, 1>>

Neg(a) == <<-a[1], a[2]>>

Add(a, b) ==
    IF a[2] = 0 /\ b[2] = 0 THEN (IF a = b THEN a ELSE NaN)
    ELSE IF a[2] = 0 THEN a
    ELSE IF b[2] = 0 THEN b
    ELSE LET g == GCD(a[2], b[2])
         IN  Norm(a[1] * (b[2] \div g) + b[1] * (a[2] \div g), (a[2] \div g) * b[2])

Sub(a, b) == Add(a, Neg(b))

Mul(a, b) == Norm(a[1] * b[1], a[2] * b[2])

Recip(a) ==
    IF a[1] > 0 THEN <<a[2], a[1]>>
    ELSE IF a[1] < 0 THEN <<-a[2], -a[1]>>
    ELSE <<Sign(a[2]), 0>>

Div(a, b) == Mul(a, Recip(b))

\* a < b on floats: false as soon as one side is NaN
Lt(a, b) ==
    /\ a # NaN /\ b # NaN /\ a # b
    /\ IF a[2] = 0 THEN a[1] < 0
       ELSE IF b[2] = 0 THEN b[1] > 0
       ELSE a[1] * b[2] < b[1] * a[2]

Le(a, b) == a # NaN /\ b # NaN /\ (a = b \/ Lt(a, b))

\* ti.tan on the angles the model uses (argument: coefficient of pi).
\* tan(pi/4) = 1 exactly; tan(2*pi/9) = 0.83909963... is taken to 4 places.
Tan(x) ==
    CASE x = <<1, 4>> -> <<1, 1>>
      [] x = <<2, 9>> -> <<8391, 10000>>

(* ------------------------------ CameraMode ----------------------------- *)

PERSPECTIVE == 1

ORTHOGRAPHIC == 2

PHYSICAL == 3

Members == {PERSPECTIVE, ORTHOGRAPHIC, PHYSICAL}

\* the payloads given at the members' definition
DefaultFovRad == <<4, 9>>

DefaultBoxHeight == <<80, 1>>

DefaultFocalLength == <<80, 1>>

\* the exception the three mutators raise on another member
InvalidCameraMode == "ValueError: Invalid camera mode"

NoError == "none"

\* arguments the mutators are called with
FovArgs == {<<1, 2>>, <<4, 9>>}

BoxHeightArgs == {<<10, 1>>}

FocalLengthArgs == {<<50, 1>>}

NoCall == <<>>

\* a member of the enum as an object: its value and the one attribute __new__ gives it
Member(m) ==
    CASE m = 1 -> [value |-> 1, fov_rad |-> fov_rad]
      [] m = 2 -> [value |-> 2, box_height |-> box_height]
      [] m = 3 -> [value |-> 3, focal_length |-> focal_length]

\* set_fov_rad storing into a copy of the member: the member keeps its payload
set_fov_rad_dropped(self, v) ==
    /\ fov_rad' = fov_rad
    /\ raised' = IF self = 1 THEN NoError ELSE InvalidCameraMode
    /\ last' = [op |-> "set_fov_rad", self |-> self, arg |-> v]
    /\ frustum' = NoCall
    /\ UNCHANGED <<box_height, focal_length, settings, cameras>>

\* set_fov_rad without its test of self.value
set_fov_rad_unguarded(self, v) ==
    /\ fov_rad' = v /\ raised' = NoError
    /\ last' = [op |-> "set_fov_rad", self |-> self, arg |-> v]
    /\ frustum' = NoCall
    /\ UNCHANGED <<box_height, focal_length, settings, cameras>>

set_fov_rad(self, v) ==
    /\ IF Member(self).value = 1
       THEN fov_rad' = v /\ raised' = NoError
       ELSE fov_rad' = fov_rad /\ raised' = InvalidCameraMode
    /\ last' = [op |-> "set_fov_rad", self |-> self, arg |-> v]
    /\ frustum' = NoCall
    /\ UNCHANGED <<box_height, focal_length, settings, cameras>>

set_box_height(self, v) ==
    /\ IF Member(self).value = 2
       THEN box_height' = v /\ raised' = NoError
       ELSE box_height' = box_height /\ raised' = InvalidCameraMode
    /\ last' = [op |-> "set_box_height", self |-> self, arg |-> v]
    /\ frustum' = NoCall
    /\ UNCHANGED <<fov_rad, focal_length, settings, cameras>>

set_focal_length(self, v) ==
    /\ IF Member(self).value = 3
       THEN focal_length' = v /\ raised' = NoError
       ELSE focal_length' = focal_length /\ raised' = InvalidCameraMode
    /\ last' = [op |-> "set_focal_length", self |-> self, arg |-> v]
    /\ frustum' = NoCall
    /\ UNCHANGED <<fov_rad, box_height, settings, cameras>>

(* ---------------------------- CameraSettings --------------------------- *)

CameraSettings(mode, near_plane, far_plane, shutter_speed, aperture, iso, sensor_size, focus_distance, aspect_ratio) ==
    [mode |-> mode, near_plane |-> near_plane, far_plane |-> far_plane,
     shutter_speed |-> shutter_speed, aperture |-> aperture, iso |-> iso,
     sensor_size |-> sensor_size, focus_distance |-> focus_distance,
     aspect_ratio |-> aspect_ratio]

\* CameraSettings(mode=m): every other parameter at its default
DefaultSettings(m) ==
    CameraSettings(m, <<1, 10>>, <<10000, 1>>, <<10, 1>>, <<4, 1>>, <<100, 1>>,
                   <<(<<36, 1>>), (<<24, 1>>)>>, <<4, 1>>, <<1, 1>>)

\* the settings the constructor is called for: the defaults in each mode, and
\* a 16:9 frustum with the far plane at 1000 in the default mode
SettingsArgs ==
    {DefaultSettings(m) : m \in Members}
    \cup {[DefaultSettings(PERSPECTIVE) EXCEPT !.far_plane = <<1000, 1>>,
                                               !.aspect_ratio = <<16, 9>>]}

\* one argument at a time outside the range its docstring or its meaning gives
OutOfRangeSettingsArgs ==
    LET d == DefaultSettings(PERSPECTIVE) IN
    {[d EXCEPT !.near_plane = <<1, 1>>, !.far_plane = <<1, 1>>],
     [d EXCEPT !.near_plane = <<2, 1>>, !.far_plane = <<1, 1>>],
     [d EXCEPT !.shutter_speed = <<0, 1>>],
     [d EXCEPT !.aperture = <<64, 1>>],
     [d EXCEPT !.aperture = <<1, 2>>],
     [d EXCEPT !.iso = <<0, 1>>],
     [d EXCEPT !.sensor_size = <<(<<0, 1>>), (<<24, 1>>)>>],
     [d EXCEPT !.sensor_size = <<(<<36, 1>>), (<<-1, 1>>)>>],
     [d EXCEPT !.focus_distance = <<0, 1>>],
     [d EXCEPT !.aspect_ratio = <<0, 1>>]}

NewCameraSettings(a) ==
    /\ Len(settings) < MaxSettings
    /\ settings' = Append(settings,
                          CameraSettings(a.mode, a.near_plane, a.far_plane,
                                         a.shutter_speed, a.aperture, a.iso,
                                         a.sensor_size, a.focus_distance,
                                         a.aspect_ratio))
    /\ last' = [op |-> "CameraSettings", self |-> Len(settings) + 1, arg |-> Zero]
    /\ raised' = NoError
    /\ frustum' = NoCall
    /\ UNCHANGED <<fov_rad, box_height, focal_length, cameras>>

(* -------------------------------- Camera ------------------------------- *)

ZeroMatrix == [i \in 1..4 |-> [j \in 1..4 |-> Zero]]

NewCamera(s) ==
    /\ Len(cameras) < MaxCameras
    /\ cameras' = Append(cameras, [settings |-> s,
                                   projection_matrix |-> ZeroMatrix,
                                   view_matrix |-> ZeroMatrix])
    /\ last' = [op |-> "Camera", self |-> Len(cameras) + 1, arg |-> Zero]
    /\ raised' = NoError
    /\ frustum' = NoCall
    /\ UNCHANGED <<fov_rad, box_height, focal_length, settings>>

\* projection_from_frustum with mzw and -mwz in each other's place
projection_from_frustum_transposed(left, right, bottom, top, near, far) ==
    LET depth_range == Sub(far, near)
        n2 == Mul(Two, near)
        mxx == Div(n2, Sub(right, left))
        myy == Div(n2, Sub(top, bottom))
        mzx == Div(Add(right, left), Sub(right, left))
        mzy == Div(Add(top, bottom), Sub(top, bottom))
        mzz == Div(Neg(far), depth_range)
        mwz == Mul(near, mzz)
        mzw == Neg(One)
    IN  <<(<<mxx, Zero, Zero, Zero>>),
          (<<Zero, myy, Zero, Zero>>),
          (<<mzx, mzy, Sub(Neg(mzz), One), Neg(mwz)>>),
          (<<Zero, Zero, mzw, Zero>>)>>

\* projection_from_frustum with the forward-z sign of mzz
projection_from_frustum_forward_z(left, right, bottom, top, near, far) ==
    LET depth_range == Sub(far, near)
        n2 == Mul(Two, near)
        mxx == Div(n2, Sub(right, left))
        myy == Div(n2, Sub(top, bottom))
        mzx == Div(Add(right, left), Sub(right, left))
        mzy == Div(Add(top, bottom), Sub(top, bottom))
        mzz == Div(far, depth_range)
        mwz == Mul(near, mzz)
        mzw == Neg(One)
    IN  <<(<<mxx, Zero, Zero, Zero>>),
          (<<Zero, myy, Zero, Zero>>),
          (<<mzx, mzy, Sub(Neg(mzz), One), mzw>>),
          (<<Zero, Zero, Neg(mwz), Zero>>)>>

\* projection_from_frustum with n2 = near
projection_from_frustum_n1(left, right, bottom, top, near, far) ==
    LET depth_range == Sub(far, near)
        n2 == near
        mxx == Div(n2, Sub(right, left))
        myy == Div(n2, Sub(top, bottom))
        mzx == Div(Add(right, left), Sub(right, left))
        mzy == Div(Add(top, bottom), Sub(top, bottom))
        mzz == Div(Neg(far), depth_range)
        mwz == Mul(near, mzz)
        mzw == Neg(One)
    IN  <<(<<mxx, Zero, Zero, Zero>>),
          (<<Zero, myy, Zero, Zero>>),
          (<<mzx, mzy, Sub(Neg(mzz), One), mzw>>),
          (<<Zero, Zero, Neg(mwz), Zero>>)>>

projection_from_frustum(left, right, bottom, top, near, far) ==
    LET depth_range == Sub(far, near)
        n2 == Mul(Two, near)
        mxx == Div(n2, Sub(right, left))
        myy == Div(n2, Sub(top, bottom))
        mzx == Div(Add(right, left), Sub(right, left))
        mzy == Div(Add(top, bottom), Sub(top, bottom))
        mzz == Div(Neg(far), depth_range)
        mwz == Mul(near, mzz)
        mzw == Neg(One)
    IN  <<(<<mxx, Zero, Zero, Zero>>),
          (<<Zero, myy, Zero, Zero>>),
          (<<mzx, mzy, Sub(Neg(mzz), One), mzw>>),
          (<<Zero, Zero, Neg(mwz), Zero>>)>>

\* FrustumArgs with the half-width divided by the aspect ratio
FrustumArgs_tall(s) ==
    LET t == Mul(s.near_plane, Tan(Div(Member(s.mode).fov_rad, Two)))
        r == Div(t, s.aspect_ratio)
    IN  [left |-> Neg(r), right |-> r, bottom |-> Neg(t), top |-> t,
         near |-> s.near_plane, far |-> s.far_plane]

\* the arguments compute_projection_matrix passes to projection_from_frustum
FrustumArgs(s) ==
    LET t == Mul(s.near_plane, Tan(Div(Member(s.mode).fov_rad, Two)))
        r == Mul(t, s.aspect_ratio)
    IN  [left |-> Neg(r), right |-> r, bottom |-> Neg(t), top |-> t,
         near |-> s.near_plane, far |-> s.far_plane]

Call(a) ==
    [args |-> a,
     ret |-> projection_from_frustum(a.left, a.right, a.bottom, a.top, a.near, a.far)]

\* compute_projection_matrix that fills the slot once and keeps it afterwards
compute_projection_matrix_once(c) ==
    LET s == settings[cameras[c].settings] IN
    /\ IF s.mode = PERSPECTIVE
       THEN /\ frustum' = <<Call(FrustumArgs(s))>>
            /\ cameras' = [cameras EXCEPT ![c].projection_matrix =
                               IF @ = ZeroMatrix THEN frustum'[1].ret ELSE @]
       ELSE /\ frustum' = NoCall
            /\ cameras' = cameras
    /\ last' = [op |-> "compute_projection_matrix", self |-> c, arg |-> Zero]
    /\ raised' = NoError
    /\ UNCHANGED <<fov_rad, box_height, focal_length, settings>>

\* compute_projection_matrix without its test of the mode
compute_projection_matrix_anymode(c) ==
    LET s == settings[cameras[c].settings] IN
    /\ frustum' = <<Call(FrustumArgs([s EXCEPT !.mode = PERSPECTIVE]))>>
    /\ cameras' = [cameras EXCEPT ![c].projection_matrix = frustum'[1].ret]
    /\ last' = [op |-> "compute_projection_matrix", self |-> c, arg |-> Zero]
    /\ raised' = NoError
    /\ UNCHANGED <<fov_rad, box_height, focal_length, settings>>

compute_projection_matrix(c) ==
    LET s == settings[cameras[c].settings] IN
    /\ IF s.mode = PERSPECTIVE
       THEN /\ frustum' = <<Call(FrustumArgs(s))>>
            /\ cameras' = [cameras EXCEPT ![c].projection_matrix = frustum'[1].ret]
       ELSE /\ frustum' = NoCall
            /\ cameras' = cameras
    /\ last' = [op |-> "compute_projection_matrix", self |-> c, arg |-> Zero]
    /\ raised' = NoError
    /\ UNCHANGED <<fov_rad, box_height, focal_length, settings>>

(* ---------------------------- specification ---------------------------- *)

Init ==
    /\ fov_rad = DefaultFovRad
    /\ box_height = DefaultBoxHeight
    /\ focal_length = DefaultFocalLength
    /\ settings = <<>>
    /\ cameras = <<>>
    /\ last = [op |-> "import", self |-> 0, arg |-> Zero]
    /\ raised = NoError
    /\ frustum = NoCall

Next ==
    \/ \E self \in Members, v \in FovArgs : set_fov_rad(self, v)
    \/ \E self \in Members, v \in BoxHeightArgs : set_box_height(self, v)
    \/ \E self \in Members, v \in FocalLengthArgs : set_focal_length(self, v)
    \/ \E a \in SettingsArgs : NewCameraSettings(a)
    \/ \E s \in 1..Len(settings) : NewCamera(s)
    \/ \E c \in 1..Len(cameras) : compute_projection_matrix(c)

Spec == Init /\ [][Next]_vars

\* construction with arguments in and out of range, and the projection derived from them
NextSettings ==
    \/ \E a \in SettingsArgs \cup OutOfRangeSettingsArgs : NewCameraSettings(a)
    \/ \E s \in 1..Len(settings) : NewCamera(s)
    \/ \E c \in 1..Len(cameras) : compute_projection_matrix(c)

SpecSettings == Init /\ [][NextSettings]_vars

\* projection_from_frustum as a function of its six arguments
LeftArgs == {<<-1, 1>>, <<0, 1>>, <<1, 1>>}

RightArgs == {<<1, 1>>, <<2, 1>>}

BottomArgs == {<<-1, 1>>, <<0, 1>>}

TopArgs == {<<0, 1>>, <<1, 1>>}

NearArgs == {<<0, 1>>, <<1, 10>>, <<1, 1>>, <<2, 1>>}

FarArgs == {<<1, 1>>, <<2, 1>>, <<3, 1>>, <<100, 1>>}

CallProjectionFromFrustum(left, right, bottom, top, near, far) ==
    /\ frustum' = <<Call([left |-> left, right |-> right, bottom |-> bottom,
                          top |-> top, near |-> near, far |-> far])>>
    /\ last' = [op |-> "projection_from_frustum", self |-> 0, arg |-> Zero]
    /\ raised' = NoError
    /\ UNCHANGED <<fov_rad, box_height, focal_length, settings, cameras>>

NextFrustum ==
    \E left \in LeftArgs, right \in RightArgs, bottom \in BottomArgs,
       top \in TopArgs, near \in NearArgs, far \in FarArgs :
        CallProjectionFromFrustum(left, right, bottom, top, near, far)

SpecFrustum == Init /\ [][NextFrustum]_vars

(* ------------------------------- claims -------------------------------- *)

Mutators == {"set_fov_rad", "set_box_height", "set_focal_length"}

\* the member a mutator belongs to
Owner(op) ==
    CASE op = "set_fov_rad" -> PERSPECTIVE
      [] op = "set_box_height" -> ORTHOGRAPHIC
      [] op = "set_focal_length" -> PHYSICAL

\* the parameters of the three variants, by member
Payload == <<fov_rad, box_height, focal_length>>

ModeOfCamera(c) == settings[cameras[c].settings].mode

ValidFrustum(a) ==
    Lt(a.left, a.right) /\ Lt(a.bottom, a.top) /\ Lt(Zero, a.near) /\ Lt(a.near, a.far)

AbsF(a) == <<Abs(a[1]), a[2]>>

Within(x, y, tol) == Le(AbsF(Sub(x, y)), tol)

Tolerance == <<1, 10000>>

\* C1: a mutator called on a member it does not belong to raises the invalid-mode
\* error and leaves the parameters of all three variants as they were; called on
\* its own member it raises nothing, stores the value and leaves the other two.
C1_ModeGuard ==
    [][last'.op \in Mutators =>
         IF last'.self = Owner(last'.op)
         THEN /\ raised' = NoError
              /\ Payload'[last'.self] = last'.arg
              /\ \A m \in Members \ {last'.self} : Payload'[m] = Payload[m]
         ELSE /\ raised' = InvalidCameraMode
              /\ Payload' = Payload]_vars

C1_Witness ==
    /\ last.op = "set_box_height" /\ last.self = PERSPECTIVE
    /\ raised = InvalidCameraMode
    /\ fov_rad = <<1, 2>> /\ box_height = DefaultBoxHeight

\* C2: compute_projection_matrix() on a Camera whose mode is Orthographic or
\* Physical ends in an explicit NotImplemented outcome, never in a silent return.
C2_NotImplementedOutcome ==
    (last.op = "compute_projection_matrix"
        /\ ModeOfCamera(last.self) \in {ORTHOGRAPHIC, PHYSICAL})
    => raised = "NotImplemented"

ValidSettings(s) ==
    /\ Lt(s.near_plane, s.far_plane)
    /\ Lt(Zero, s.shutter_speed) /\ Lt(Zero, s.iso)
    /\ Lt(Zero, s.sensor_size[1]) /\ Lt(Zero, s.sensor_size[2])
    /\ Lt(Zero, s.aspect_ratio) /\ Lt(Zero, s.focus_distance)
    /\ Le(One, s.aperture) /\ Le(s.aperture, <<32, 1>>)

\* C3: construction validates its arguments, so that every CameraSettings that
\* exists has near < far, positive shutter speed, ISO, sensor size, aspect ratio
\* and focus distance and an aperture in [1, 32], and projection_from_frustum is
\* never reached with near >= far.
C3_ConstructionValidates ==
    /\ \A i \in DOMAIN settings : ValidSettings(settings[i])
    /\ frustum # NoCall => Lt(frustum[1].args.near, frustum[1].args.far)

\* the matrix C4 writes out, entry by entry
ClaimedMatrix(a) ==
    LET mzz == Neg(Div(a.far, Sub(a.far, a.near)))
        mwz == Mul(a.near, mzz)
    IN  <<(<<Div(Mul(Two, a.near), Sub(a.right, a.left)), Zero, Zero, Zero>>),
          (<<Zero, Div(Mul(Two, a.near), Sub(a.top, a.bottom)), Zero, Zero>>),
          (<<Div(Add(a.right, a.left), Sub(a.right, a.left)),
             Div(Add(a.top, a.bottom), Sub(a.top, a.bottom)),
             Sub(Neg(mzz), One), Neg(One)>>),
          (<<Zero, Zero, Neg(mwz), Zero>>)>>

\* C4: for right > left, top > bottom and far > near > 0 the matrix returned is
\* exactly the claimed one: every entry at its place and with its sign.
C4_MatrixLayout ==
    (frustum # NoCall /\ ValidFrustum(frustum[1].args))
    => frustum[1].ret = ClaimedMatrix(frustum[1].args)

C4_Witness ==
    /\ frustum # NoCall /\ ValidFrustum(frustum[1].args)
    /\ last.op = "projection_from_frustum"
    /\ frustum[1].ret[3][1] = One /\ frustum[1].ret[3][2] = One

\* C5 as stated: for valid inputs [0][0] and [1][1] are strictly positive and
\* [2][2] lies strictly between 0 and 1, for every far > near.
C5_Original ==
    (frustum # NoCall /\ ValidFrustum(frustum[1].args))
    => /\ Lt(Zero, frustum[1].ret[1][1]) /\ Lt(Zero, frustum[1].ret[2][2])
       /\ Lt(Zero, frustum[1].ret[3][3]) /\ Lt(frustum[1].ret[3][3], One)

\* C5 as amended: for valid inputs [0][0], [1][1] and [2][2] are strictly
\* positive, [2][2] is near/(far-near), and it is below 1 exactly when
\* far > 2*near.
C5_DepthEntry ==
    (frustum # NoCall /\ ValidFrustum(frustum[1].args))
    => LET a == frustum[1].args
           m == frustum[1].ret
       IN  /\ Lt(Zero, m[1][1]) /\ Lt(Zero, m[2][2]) /\ Lt(Zero, m[3][3])
           /\ m[3][3] = Div(a.near, Sub(a.far, a.near))
           /\ Lt(m[3][3], One) <=> Lt(Mul(Two, a.near), a.far)

C5_Witness ==
    /\ frustum # NoCall /\ ValidFrustum(frustum[1].args)
    /\ last.op = "projection_from_frustum"
    /\ Lt(One, frustum[1].ret[3][3])

\* the Camera of the end-to-end scenario has just computed its matrix
EndToEnd ==
    /\ last.op = "compute_projection_matrix"
    /\ ModeOfCamera(last.self) = PERSPECTIVE
    /\ fov_rad = <<1, 2>>
    /\ settings[cameras[last.self].settings].near_plane = <<1, 10>>
    /\ settings[cameras[last.self].settings].far_plane = <<1000, 1>>
    /\ settings[cameras[last.self].settings].aspect_ratio = <<16, 9>>

\* C6 as stated: in the end-to-end scenario t = 0.1, r = 0.1*(16/9), and the
\* stored matrix has [0][0] = 1.125 and [1][1] = 2.0 within 1e-4.
C6_Original ==
    EndToEnd
    => /\ frustum # NoCall
       /\ frustum[1].args.top = <<1, 10>> /\ frustum[1].args.right = <<8, 45>>
       /\ Within(cameras[last.self].projection_matrix[1][1], <<9, 8>>, Tolerance)
       /\ Within(cameras[last.self].projection_matrix[2][2], <<2, 1>>, Tolerance)

\* C6 as amended: in the end-to-end scenario t = 0.1, r = 0.1*(16/9), and the
\* stored matrix has [0][0] = 0.5625 and [1][1] = 1.0 within 1e-4.
C6_EndToEnd ==
    EndToEnd
    => /\ frustum # NoCall
       /\ frustum[1].args.top = <<1, 10>> /\ frustum[1].args.right = <<8, 45>>
       /\ Within(cameras[last.self].projection_matrix[1][1], <<9, 16>>, Tolerance)
       /\ Within(cameras[last.self].projection_matrix[2][2], <<1, 1>>, Tolerance)

C6_Witness == EndToEnd /\ cameras[last.self].projection_matrix # ZeroMatrix

\* the frustum of the concrete sample has just been converted
Sample ==
    /\ frustum # NoCall
    /\ last.op = "projection_from_frustum"
    /\ frustum[1].args = [left |-> <<-1, 1>>, right |-> <<1, 1>>,
                          bottom |-> <<-1, 1>>, top |-> <<1, 1>>,
                          near |-> <<1, 10>>, far |-> <<100, 1>>]

\* C7 as stated: the sample yields [0][0] = [1][1] = 0.2, [2][2] = 0.1/99.9 and
\* [3][2] = 10/99.9.
C7_Original ==
    Sample
    => /\ frustum[1].ret[1][1] = <<1, 5>> /\ frustum[1].ret[2][2] = <<1, 5>>
       /\ frustum[1].ret[3][3] = <<1, 999>> /\ frustum[1].ret[4][3] = <<100, 999>>

\* C7 as amended: the sample yields [0][0] = [1][1] = 0.1, [2][2] = 0.1/99.9
\* (so mzz = -100/99.9) and [3][2] = 10/99.9.
C7_Sample ==
    Sample
    => /\ frustum[1].ret[1][1] = <<1, 10>> /\ frustum[1].ret[2][2] = <<1, 10>>
       /\ frustum[1].ret[3][3] = <<1, 999>> /\ frustum[1].ret[4][3] = <<100, 999>>

C7_Witness == Sample /\ frustum[1].ret[3][4] = Neg(One)

\* the perspective matrix as a function of (fov_rad, aspect_ratio, near_plane,
\* far_plane) alone, in closed form
PerspectiveMatrix(fov, aspect, near, far) ==
    <<(<<Recip(Mul(aspect, Tan(Div(fov, Two)))), Zero, Zero, Zero>>),
      (<<Zero, Recip(Tan(Div(fov, Two))), Zero, Zero>>),
      (<<Zero, Zero, Div(near, Sub(far, near)), Neg(One)>>),
      (<<Zero, Zero, Div(Mul(near, far), Sub(far, near)), Zero>>)>>

C9_Frame ==
    [][/\ last'.op = "Camera" =>
            /\ cameras'[last'.self].projection_matrix = ZeroMatrix
            /\ cameras'[last'.self].view_matrix = ZeroMatrix
       /\ \A c \in DOMAIN cameras :
            cameras'[c].projection_matrix # cameras[c].projection_matrix
            => /\ last'.op = "compute_projection_matrix" /\ last'.self = c
               /\ ModeOfCamera(c) = PERSPECTIVE
       /\ \A c \in DOMAIN cameras' : cameras'[c].view_matrix = ZeroMatrix
       /\ last'.op = "compute_projection_matrix" =>
            /\ settings' = settings /\ Payload' = Payload
            /\ \A c \in DOMAIN cameras : cameras'[c].settings = cameras[c].settings]_vars

C9_Witness ==
    /\ last.op = "set_focal_length" /\ raised = NoError
    /\ cameras # <<>>
    /\ cameras[1].projection_matrix # ZeroMatrix
    /\ cameras[1].view_matrix = ZeroMatrix

\* the value settings.mode.fov_rad reads for the s-th CameraSettings
ReadFovRad(s) == Member(settings[s].mode).fov_rad

PerspectiveSettings == {s \in DOMAIN settings : settings[s].mode = PERSPECTIVE}

\* C10: after a successful set_fov_rad(v) every Perspective CameraSettings reads
\* fov_rad = v, though none of its own fields was assigned; one constructed
\* afterwards reads the value set, not the default; any two Perspective
\* CameraSettings, and those the Cameras hold, read the same fov_rad.
C10_SharedPayload ==
    [][/\ (last'.op = "set_fov_rad" /\ raised' = NoError) =>
            /\ settings' = settings
            /\ \A s \in PerspectiveSettings' : ReadFovRad(s)' = last'.arg
       /\ last'.op = "CameraSettings" =>
            \A s \in PerspectiveSettings' :
                s = last'.self => ReadFovRad(s)' = Payload[PERSPECTIVE]
       /\ \A s1, s2 \in PerspectiveSettings' : ReadFovRad(s1)' = ReadFovRad(s2)'
       /\ \A c \in DOMAIN cameras' : \A s1, s2 \in PerspectiveSettings' :
            s1 = cameras'[c].settings => ReadFovRad(s1)' = ReadFovRad(s2)']_vars

C10_Witness ==
    /\ last.op = "CameraSettings" /\ last.self = 2
    /\ PerspectiveSettings = {1, 2}
    /\ cameras # <<>> /\ cameras[1].settings = 1
    /\ cameras[1].projection_matrix # ZeroMatrix
    /\ ReadFovRad(1) = <<1, 2>> /\ ReadFovRad(2) = <<1, 2>>

==========================================================================
